---- MODULE Spec2Model ----
(***************************************************************************)
(* Dual-format (JSON / YAML) decoding of an OpenAPI 3.0 document.          *)
(*                                                                         *)
(*   src/bk/debug_parse_method.rs    parse_openapi_content_debug           *)
(*   src/bk/improved_parse_method.rs parse_openapi_content                 *)
(*                                                                         *)
(* One call of each function runs on the same content.  A content is a     *)
(* sequence of characters; a character occupies one or two bytes of the    *)
(* UTF-8 buffer.  The two codecs (serde_json, serde_yaml) and the target   *)
(* type OpenApi30Spec are outside the repository: whether a codec accepts  *)
(* the content is an input of the call, fixed for a given content.         *)
(***************************************************************************)
EXTENDS Integers, Sequences, FiniteSets, TLC

(* ---------------------------------------------------------------- bounds *)

\* longest run of arbitrary characters at the start of a content
MaxHead == 2

(* ------------------------------------------------------------- constants *)

\* number of bytes of the content the debug variant previews
PreviewLen == 100

(* ------------------------------------------------------------ characters *)

\* characters str::trim removes
Whitespace == {" "}

\* the characters the code tests for, a whitespace and a two-byte character
Alphabet == {" ", "{", "[", ":", "-", "é"}

\* bytes a character takes in the UTF-8 buffer
Width(c) == IF c = "é" THEN 2 ELSE 1

SeqsUpTo(S, n) == UNION {[1..k -> S] : k \in 0..n}

\* a run of n one-byte letters
Fill(n) == [i \in 1..n |-> "a"]

\* no filler, or a filler that brings the end of the content next to byte
\* offset PreviewLen
FillLens == {0, PreviewLen - 2, PreviewLen - 1}

\* what may follow the filler
Tails == {<<>>, <<" ">>, <<":">>, <<"é">>}

\* the texts a call is given: head, filler, tail
Contents ==
    {h \o Fill(n) \o t : h \in SeqsUpTo(Alphabet, MaxHead),
                         n \in FillLens,
                         t \in Tails}

(* ------------------------------------------------------- str operations *)

Min(a, b) == IF a <= b THEN a ELSE b

RECURSIVE Scan(_, _, _, _)
\* walk the characters from index i while they end at or below byte offset k:
\* <<characters passed, bytes passed>>
Scan(s, i, bytes, k) ==
    IF i > Len(s) \/ bytes + Width(s[i]) > k
    THEN <<i - 1, bytes>>
    ELSE Scan(s, i + 1, bytes + Width(s[i]), k)

\* str::len: the length of the buffer in bytes
ByteLen(s) == Scan(s, 1, 0, 2 * Len(s))[2]

\* str::is_char_boundary: byte offset k is the start of a character or the end
IsCharBoundary(s, k) == Scan(s, 1, 0, k)[2] = k

\* &s[..k], defined when k is a char boundary: the characters below offset k
SliceTo(s, k) == SubSeq(s, 1, Scan(s, 1, 0, k)[1])

RECURSIVE TrimStart(_)
TrimStart(s) ==
    IF s # <<>> /\ Head(s) \in Whitespace THEN TrimStart(Tail(s)) ELSE s

RECURSIVE TrimEnd(_)
TrimEnd(s) ==
    IF s # <<>> /\ s[Len(s)] \in Whitespace
    THEN TrimEnd(SubSeq(s, 1, Len(s) - 1))
    ELSE s

\* str::trim
Trim(s) == TrimEnd(TrimStart(s))

\* str::starts_with(char)
StartsWith(s, c) == s # <<>> /\ s[1] = c

\* str::contains(char)
Contains(s, c) == \E i \in DOMAIN s : s[i] = c

(* ----------------------------------------------------------------- state *)

Variants == {"debug", "improved"}

VARIABLES
    content,          \* the text both calls are given
    jsonOk,           \* serde_json accepts the content as an OpenApi30Spec
    yamlOk,           \* serde_yaml accepts the content as an OpenApi30Spec
    pc,               \* position of each call
    is_likely_json,   \* debug variant: local is_likely_json
    is_likely_yaml,   \* debug variant: local is_likely_yaml
    json_err,         \* per call: the bound json_err, "none" before
    yaml_err,         \* per call: the bound yaml_err, "none" before
    calls,            \* per call: the codecs invoked so far, in order
    result,           \* per call: the value returned
    stdout,           \* per call: lines written by println!
    stderr            \* per call: lines written by eprintln!

vars == <<content, jsonOk, yamlOk, pc, is_likely_json, is_likely_yaml,
          json_err, yaml_err, calls, result, stdout, stderr>>

NoResult == [kind |-> "None"]

\* Ok(spec): the spec is the value the named codec produced
Ok(codec) == [kind |-> "Ok", spec |-> codec]

\* Err(ServiceError::ParseError(msg))
ParseError(msg) == [kind |-> "Err", msg |-> msg]

\* the error value a failing codec yields
JsonError == "serde_json::Error"
YamlError == "serde_yaml::Error"

\* {:?} of an error value
Dbg(e) == <<"{:?}", e>>

Init ==
    /\ content \in Contents
    /\ jsonOk \in BOOLEAN
    /\ yamlOk \in BOOLEAN
    /\ pc = [v \in Variants |-> "start"]
    /\ is_likely_json = FALSE
    /\ is_likely_yaml = FALSE
    /\ json_err = [v \in Variants |-> "none"]
    /\ yaml_err = [v \in Variants |-> "none"]
    /\ calls = [v \in Variants |-> <<>>]
    /\ result = [v \in Variants |-> NoResult]
    /\ stdout = [v \in Variants |-> <<>>]
    /\ stderr = [v \in Variants |-> <<>>]

Println(v, lines) == stdout' = [stdout EXCEPT ![v] = @ \o lines]
Eprintln(v, lines) == stderr' = [stderr EXCEPT ![v] = @ \o lines]
Goto(v, l) == pc' = [pc EXCEPT ![v] = l]
Invoke(v, codec) == calls' = [calls EXCEPT ![v] = Append(@, codec)]
Return(v, r) == result' = [result EXCEPT ![v] = r]

(* --------------------------------------- parse_openapi_content_debug *)

\* lines 4-5: print the first 100 bytes and the length; the slice panics when
\* the cut is not on a char boundary
DebugPreview ==
    /\ pc["debug"] = "start"
    /\ \E len \in {ByteLen(content)} :
       \E k \in {Min(len, PreviewLen)} :
          IF IsCharBoundary(content, k)
          THEN /\ Println("debug", << <<"Content preview: ", SliceTo(content, k)>>,
                                      <<"Content length: ", len>> >>)
               /\ Goto("debug", "sniff")
          ELSE /\ Goto("debug", "panicked")
               /\ UNCHANGED stdout
    /\ UNCHANGED <<content, jsonOk, yamlOk, is_likely_json, is_likely_yaml,
                   json_err, yaml_err, calls, result, stderr>>

\* the marker test applied to the untrimmed content
IsLikelyJson_NoTrim(s) == StartsWith(s, "{") \/ StartsWith(s, "[")

\* lines 8-9: is_likely_json
IsLikelyJson(s) ==
    LET trimmed == Trim(s)
    IN  StartsWith(trimmed, "{") \/ StartsWith(trimmed, "[")

\* lines 8-10: is_likely_yaml
IsLikelyYaml(s) ==
    LET trimmed == Trim(s)
    IN  ~IsLikelyJson(s) /\ (Contains(trimmed, ":") \/ Contains(trimmed, "-"))

\* lines 8-12: content type detection
DebugSniff ==
    /\ pc["debug"] = "sniff"
    /\ is_likely_json' = IsLikelyJson(content)
    /\ is_likely_yaml' = IsLikelyYaml(content)
    /\ Println("debug", << <<"Content type detection: JSON=", is_likely_json',
                             ", YAML=", is_likely_yaml'>> >>)
    /\ Goto("debug", "first")
    /\ UNCHANGED <<content, jsonOk, yamlOk, json_err, yaml_err, calls, result,
                   stderr>>

\* JSON first, without the return on success
DebugJsonFirst_FallsThrough ==
    /\ pc["debug"] = "first"
    /\ is_likely_json
    /\ Invoke("debug", "json")
    /\ IF jsonOk
       THEN /\ Println("debug", << <<"Attempting JSON parse first...">>,
                                   <<"JSON parse successful!">> >>)
            /\ Return("debug", Ok("json"))
            /\ UNCHANGED json_err
       ELSE /\ json_err' = [json_err EXCEPT !["debug"] = JsonError]
            /\ Println("debug", << <<"Attempting JSON parse first...">>,
                                   <<"JSON parse failed: ", Dbg(JsonError)>> >>)
            /\ UNCHANGED result
    /\ Goto("debug", "fallback")
    /\ UNCHANGED <<content, jsonOk, yamlOk, is_likely_json, is_likely_yaml,
                   yaml_err, stderr>>

\* lines 15-23: JSON first
DebugJsonFirst ==
    /\ pc["debug"] = "first"
    /\ is_likely_json
    /\ Invoke("debug", "json")
    /\ IF jsonOk
       THEN /\ Println("debug", << <<"Attempting JSON parse first...">>,
                                   <<"JSON parse successful!">> >>)
            /\ Return("debug", Ok("json"))
            /\ Goto("debug", "done")
            /\ UNCHANGED json_err
       ELSE /\ json_err' = [json_err EXCEPT !["debug"] = JsonError]
            /\ Println("debug", << <<"Attempting JSON parse first...">>,
                                   <<"JSON parse failed: ", Dbg(JsonError)>> >>)
            /\ Goto("debug", "fallback")
            /\ UNCHANGED result
    /\ UNCHANGED <<content, jsonOk, yamlOk, is_likely_json,
                   is_likely_yaml, yaml_err, stderr>>

\* YAML as fallback, returning the JSON failure whatever YAML yields
DebugYamlFallback_KeepsJsonError ==
    /\ pc["debug"] = "fallback"
    /\ is_likely_json
    /\ Invoke("debug", "yaml")
    /\ Println("debug", << <<"Attempting YAML parse as fallback...">> >>)
    /\ yaml_err' = [yaml_err EXCEPT !["debug"] = IF yamlOk THEN @ ELSE YamlError]
    /\ Return("debug", ParseError(
           <<"JSON parse failed: ", Dbg(json_err["debug"]),
             ", YAML parse failed: ", Dbg(YamlError)>>))
    /\ Goto("debug", "done")
    /\ UNCHANGED <<content, jsonOk, yamlOk, is_likely_json, is_likely_yaml,
                   json_err, stderr>>

\* lines 26-38: YAML as fallback
DebugYamlFallback ==
    /\ pc["debug"] = "fallback"
    /\ is_likely_json
    /\ Invoke("debug", "yaml")
    /\ IF yamlOk
       THEN /\ Println("debug", << <<"Attempting YAML parse as fallback...">>,
                                   <<"YAML parse successful!">> >>)
            /\ Return("debug", Ok("yaml"))
            /\ UNCHANGED yaml_err
       ELSE /\ yaml_err' = [yaml_err EXCEPT !["debug"] = YamlError]
            /\ Println("debug", << <<"Attempting YAML parse as fallback...">>,
                                   <<"YAML parse also failed: ", Dbg(YamlError)>> >>)
            /\ Return("debug", ParseError(
                   <<"JSON parse failed: ", Dbg(json_err["debug"]),
                     ", YAML parse failed: ", Dbg(YamlError)>>))
    /\ Goto("debug", "done")
    /\ UNCHANGED <<content, jsonOk, yamlOk, is_likely_json,
                   is_likely_yaml, json_err, stderr>>

\* YAML first, taken when the content looks like YAML or like nothing, and
\* also when it looks like JSON
DebugYamlFirst_AnyGuess ==
    /\ pc["debug"] = "first"
    /\ Invoke("debug", "yaml")
    /\ IF yamlOk
       THEN /\ Println("debug", << <<"Attempting YAML parse first...">>,
                                   <<"YAML parse successful!">> >>)
            /\ Return("debug", Ok("yaml"))
            /\ Goto("debug", "done")
            /\ UNCHANGED yaml_err
       ELSE /\ yaml_err' = [yaml_err EXCEPT !["debug"] = YamlError]
            /\ Println("debug", << <<"Attempting YAML parse first...">>,
                                   <<"YAML parse failed: ", Dbg(YamlError)>> >>)
            /\ Goto("debug", "fallback")
            /\ UNCHANGED result
    /\ UNCHANGED <<content, jsonOk, yamlOk, is_likely_json, is_likely_yaml,
                   json_err, stderr>>

\* lines 42-51: YAML first
DebugYamlFirst ==
    /\ pc["debug"] = "first"
    /\ ~is_likely_json
    /\ Invoke("debug", "yaml")
    /\ IF yamlOk
       THEN /\ Println("debug", << <<"Attempting YAML parse first...">>,
                                   <<"YAML parse successful!">> >>)
            /\ Return("debug", Ok("yaml"))
            /\ Goto("debug", "done")
            /\ UNCHANGED yaml_err
       ELSE /\ yaml_err' = [yaml_err EXCEPT !["debug"] = YamlError]
            /\ Println("debug", << <<"Attempting YAML parse first...">>,
                                   <<"YAML parse failed: ", Dbg(YamlError)>> >>)
            /\ Goto("debug", "fallback")
            /\ UNCHANGED result
    /\ UNCHANGED <<content, jsonOk, yamlOk, is_likely_json,
                   is_likely_yaml, json_err, stderr>>

\* JSON as fallback, its success ignored
DebugJsonFallback_IgnoresSuccess ==
    /\ pc["debug"] = "fallback"
    /\ ~is_likely_json
    /\ Invoke("debug", "json")
    /\ json_err' = [json_err EXCEPT !["debug"] = JsonError]
    /\ Println("debug", << <<"Attempting JSON parse as fallback...">>,
                           <<"JSON parse also failed: ", Dbg(JsonError)>> >>)
    /\ Return("debug", ParseError(
           <<"YAML parse failed: ", Dbg(yaml_err["debug"]),
             ", JSON parse failed: ", Dbg(JsonError)>>))
    /\ Goto("debug", "done")
    /\ UNCHANGED <<content, jsonOk, yamlOk, is_likely_json, is_likely_yaml,
                   yaml_err, stderr>>

\* lines 54-66: JSON as fallback
DebugJsonFallback ==
    /\ pc["debug"] = "fallback"
    /\ ~is_likely_json
    /\ Invoke("debug", "json")
    /\ IF jsonOk
       THEN /\ Println("debug", << <<"Attempting JSON parse as fallback...">>,
                                   <<"JSON parse successful!">> >>)
            /\ Return("debug", Ok("json"))
            /\ UNCHANGED json_err
       ELSE /\ json_err' = [json_err EXCEPT !["debug"] = JsonError]
            /\ Println("debug", << <<"Attempting JSON parse as fallback...">>,
                                   <<"JSON parse also failed: ", Dbg(JsonError)>> >>)
            /\ Return("debug", ParseError(
                   <<"YAML parse failed: ", Dbg(yaml_err["debug"]),
                     ", JSON parse failed: ", Dbg(JsonError)>>))
    /\ Goto("debug", "done")
    /\ UNCHANGED <<content, jsonOk, yamlOk, is_likely_json,
                   is_likely_yaml, yaml_err, stderr>>

(* ---------------------------------------------- parse_openapi_content *)

\* JSON only: its failure is returned without trying YAML
ImprovedJson_NoFallback ==
    /\ pc["improved"] = "start"
    /\ Invoke("improved", "json")
    /\ IF jsonOk
       THEN /\ Return("improved", Ok("json"))
            /\ UNCHANGED <<json_err, stderr>>
       ELSE /\ json_err' = [json_err EXCEPT !["improved"] = JsonError]
            /\ Eprintln("improved", << <<"JSON parse error: ", Dbg(JsonError)>> >>)
            /\ Return("improved", ParseError(
                   <<"Failed to parse content as JSON or YAML. JSON error: ",
                     Dbg(JsonError), ", YAML error: ", Dbg("none")>>))
    /\ Goto("improved", "done")
    /\ UNCHANGED <<content, jsonOk, yamlOk, is_likely_json, is_likely_yaml,
                   yaml_err, stdout>>

\* lines 4-8: JSON first, always
ImprovedJson ==
    /\ pc["improved"] = "start"
    /\ Invoke("improved", "json")
    /\ IF jsonOk
       THEN /\ Return("improved", Ok("json"))
            /\ Goto("improved", "done")
            /\ UNCHANGED <<json_err, stderr>>
       ELSE /\ json_err' = [json_err EXCEPT !["improved"] = JsonError]
            /\ Eprintln("improved", << <<"JSON parse error: ", Dbg(JsonError)>> >>)
            /\ Goto("improved", "fallback")
            /\ UNCHANGED result
    /\ UNCHANGED <<content, jsonOk, yamlOk, is_likely_json,
                   is_likely_yaml, yaml_err, stdout>>

\* YAML second, logging its outcome on success too
ImprovedYaml_LogsSuccess ==
    /\ pc["improved"] = "fallback"
    /\ Invoke("improved", "yaml")
    /\ IF yamlOk
       THEN /\ Return("improved", Ok("yaml"))
            /\ Eprintln("improved", << <<"YAML parse successful!">> >>)
            /\ UNCHANGED yaml_err
       ELSE /\ yaml_err' = [yaml_err EXCEPT !["improved"] = YamlError]
            /\ Eprintln("improved", << <<"YAML parse error: ", Dbg(YamlError)>> >>)
            /\ Return("improved", ParseError(
                   <<"Failed to parse content as JSON or YAML. JSON error: ",
                     Dbg(json_err["improved"]),
                     ", YAML error: ", Dbg(YamlError)>>))
    /\ Goto("improved", "done")
    /\ UNCHANGED <<content, jsonOk, yamlOk, is_likely_json, is_likely_yaml,
                   json_err, stdout>>

\* lines 11-21: YAML second
ImprovedYaml ==
    /\ pc["improved"] = "fallback"
    /\ Invoke("improved", "yaml")
    /\ IF yamlOk
       THEN /\ Return("improved", Ok("yaml"))
            /\ UNCHANGED <<yaml_err, stderr>>
       ELSE /\ yaml_err' = [yaml_err EXCEPT !["improved"] = YamlError]
            /\ Eprintln("improved", << <<"YAML parse error: ", Dbg(YamlError)>> >>)
            /\ Return("improved", ParseError(
                   <<"Failed to parse content as JSON or YAML. JSON error: ",
                     Dbg(json_err["improved"]),
                     ", YAML error: ", Dbg(YamlError)>>))
    /\ Goto("improved", "done")
    /\ UNCHANGED <<content, jsonOk, yamlOk, is_likely_json,
                   is_likely_yaml, json_err, stdout>>

Next ==
    \/ DebugPreview
    \/ DebugSniff
    \/ DebugJsonFirst
    \/ DebugYamlFallback
    \/ DebugYamlFirst
    \/ DebugJsonFallback
    \/ ImprovedJson
    \/ ImprovedYaml

Spec == Init /\ [][Next]_vars

(* ================================================================ claims *)

\* a call is over: it returned, or it panicked
Terminal == {"done", "panicked"}

\* the codec accepts the content
Accepts(codec) == IF codec = "json" THEN jsonOk ELSE yamlOk

\* the first character that is not whitespace exists and is '{' or '['
LeadsWithJsonMarker(s) ==
    \E i \in DOMAIN s :
        /\ s[i] \in {"{", "["}
        /\ \A j \in 1..(i - 1) : s[j] \in Whitespace

\* the codec the sniffer's rule orders first for a text
GuessOf(s) == IF LeadsWithJsonMarker(s) THEN "json" ELSE "yaml"

\* the codec a piece of literal text of an error message names last
CodecOfLabel(l) ==
    IF l \in {"JSON parse failed: ", ", JSON parse failed: ",
              "Failed to parse content as JSON or YAML. JSON error: "}
    THEN "json"
    ELSE IF l \in {"YAML parse failed: ", ", YAML parse failed: ", ", YAML error: "}
         THEN "yaml"
         ELSE "?"

\* the codec an error value comes from
CodecOfError(e) ==
    IF e = JsonError THEN "json" ELSE IF e = YamlError THEN "yaml" ELSE "?"

\* the labels of a message <<label, diagnostic, label, diagnostic>>, in order
LabelsOf(msg) == <<CodecOfLabel(msg[1]), CodecOfLabel(msg[3])>>

\* the codecs whose diagnostics a message embeds, in order
DiagnosticsOf(msg) == <<CodecOfError(msg[2][2]), CodecOfError(msg[4][2])>>

(* -------------------------------------------------------------------- C1 *)

\* C1: every call, whatever the content, ends by returning exactly one of Ok
\* and Err, and never aborts before producing a result.
C1_ReturnsExactlyOne ==
    \A v \in Variants :
        /\ pc[v] # "panicked"
        /\ pc[v] = "done" <=> result[v].kind \in {"Ok", "Err"}

(* -------------------------------------------------------------------- C2 *)

\* C2: when the JSON codec accepts the content, a call that is over has
\* returned Ok, whichever codec was ordered first.
C2_JsonAcceptedReturnsOk ==
    \A v \in Variants :
        (jsonOk /\ pc[v] \in Terminal) => result[v].kind = "Ok"

(* -------------------------------------------------------------------- C3 *)

\* C3: in a call that attempted JSON first on a content YAML accepts and JSON
\* rejects, the call goes on to the YAML attempt and returns the spec YAML
\* produced; the JSON failure is not returned.
C3_YamlFallbackSucceeds ==
    \A v \in Variants :
        (calls[v] # <<>> /\ calls[v][1] = "json" /\ yamlOk /\ ~jsonOk) =>
            /\ pc[v] \in {"fallback", "done"}
            /\ pc[v] = "fallback" => calls[v] = <<"json">> /\ result[v] = NoResult
            /\ pc[v] = "done" =>
                  calls[v] = <<"json", "yaml">> /\ result[v] = Ok("yaml")

C3_Witness ==
    /\ is_likely_json
    /\ ~jsonOk
    /\ calls["debug"] = <<"json", "yaml">>
    /\ result["debug"] = Ok("yaml")
    /\ result["improved"] = Ok("yaml")

(* -------------------------------------------------------------------- C4 *)

\* C4: when both codecs reject the content, a call that is over has returned
\* one ParseError embedding both diagnostics, each under the label of its
\* codec, in the order the codecs were attempted in that call.
C4_AggregatedErrorInAttemptOrder ==
    \A v \in Variants :
        (~jsonOk /\ ~yamlOk /\ pc[v] \in Terminal) =>
            /\ result[v].kind = "Err"
            /\ Len(calls[v]) = 2
            /\ DiagnosticsOf(result[v].msg) = calls[v]
            /\ LabelsOf(result[v].msg) = calls[v]

(* -------------------------------------------------------------------- C5 *)

\* C5 as stated: in every call of either variant the first codec invoked is
\* the one the sniffer's rule gives for the content.
C5_FirstCodecIsGuess_Original ==
    \A v \in Variants :
        calls[v] # <<>> => calls[v][1] = GuessOf(content)

\* C5 amended: in every call of parse_openapi_content_debug the first codec
\* invoked is the one the sniffer's rule gives for the content (JSON when the
\* trimmed content starts with '{' or '[', YAML otherwise); every call of
\* parse_openapi_content invokes JSON first, whatever the content.
C5_FirstCodec ==
    /\ calls["debug"] # <<>> => calls["debug"][1] = GuessOf(content)
    /\ calls["improved"] # <<>> => calls["improved"][1] = "json"

C5_Witness ==
    /\ content = <<>>
    /\ calls["debug"] # <<>>
    /\ calls["debug"][1] = "yaml"
    /\ calls["improved"] # <<>>
    /\ calls["improved"][1] = "json"

(* -------------------------------------------------------------------- C6 *)

\* C6: when the first codec attempted accepts the content the call has
\* returned that codec's spec and invoked no second codec; an Ok spec comes
\* from the last and only accepting attempt; no codec is invoked twice.
C6_ShortCircuit ==
    \A v \in Variants :
        /\ Len(calls[v]) <= 2
        /\ Len(calls[v]) = 2 => calls[v][1] # calls[v][2]
        /\ (calls[v] # <<>> /\ Accepts(calls[v][1])) =>
              /\ pc[v] = "done"
              /\ calls[v] = <<calls[v][1]>>
              /\ result[v] = Ok(calls[v][1])
        /\ result[v].kind = "Ok" =>
              /\ calls[v] # <<>>
              /\ result[v].spec = calls[v][Len(calls[v])]
              /\ Accepts(result[v].spec)
              /\ \A i \in 1..(Len(calls[v]) - 1) : ~Accepts(calls[v][i])

C6_Witness ==
    /\ jsonOk
    /\ yamlOk
    /\ calls["debug"] = <<"yaml">>
    /\ result["debug"] = Ok("yaml")
    /\ calls["improved"] = <<"json">>
    /\ result["improved"] = Ok("json")

(* -------------------------------------------------------------------- C7 *)

\* C7: a call returns Err only after it attempted both codecs and both
\* failed; if either codec accepts the content a returned result is Ok.
C7_ErrOnlyAfterBoth ==
    \A v \in Variants :
        /\ result[v].kind = "Err" =>
              /\ Len(calls[v]) = 2
              /\ {calls[v][1], calls[v][2]} = {"json", "yaml"}
              /\ ~jsonOk
              /\ ~yamlOk
              /\ json_err[v] = JsonError
              /\ yaml_err[v] = YamlError
        /\ (pc[v] = "done" /\ (jsonOk \/ yamlOk)) => result[v].kind = "Ok"

C7_Witness ==
    /\ content = <<>>
    /\ result["debug"].kind = "Err"
    /\ calls["debug"] = <<"yaml", "json">>
    /\ result["improved"].kind = "Err"
    /\ calls["improved"] = <<"json", "yaml">>

(* -------------------------------------------------------------------- C8 *)

\* C8: the sniffer never fails, and it guesses Json exactly when the first
\* character of the content that is not whitespace is '{' or '['; for every
\* other text YAML is attempted first, with or without ':' or '-' in it.
C8_SnifferRule ==
    /\ pc["debug"] \in {"first", "fallback", "done"} =>
          is_likely_json = LeadsWithJsonMarker(content)
    /\ calls["debug"] # <<>> =>
          /\ LeadsWithJsonMarker(content) => calls["debug"][1] = "json"
          /\ ~LeadsWithJsonMarker(content) => calls["debug"][1] = "yaml"
          /\ is_likely_yaml => calls["debug"][1] = "yaml"
          /\ (~is_likely_yaml /\ ~is_likely_json) => calls["debug"][1] = "yaml"

C8_Witness ==
    /\ content # <<>>
    /\ content[1] \in Whitespace
    /\ Contains(content, ":")
    /\ is_likely_json
    /\ calls["debug"] # <<>>
    /\ calls["debug"][1] = "json"

(* -------------------------------------------------------------------- C9 *)

C9_Output ==
    /\ stderr["debug"] = <<>>
    /\ stdout["improved"] = <<>>
    /\ pc["debug"] = "done" => Len(stdout["debug"]) \in {5, 7}
    /\ Len(stderr["improved"]) =
          (IF json_err["improved"] = "none" THEN 0 ELSE 1)
        + (IF yaml_err["improved"] = "none" THEN 0 ELSE 1)
    /\ result["improved"] = Ok("json") => stderr["improved"] = <<>>

SameOutcome(r1, r2) ==
    /\ r1.kind = r2.kind
    /\ r1.kind = "Ok" => r1.spec = r2.spec
    /\ r1.kind = "Err" => DiagnosticsOf(r1.msg) = DiagnosticsOf(r2.msg)

====
